---- MODULE Spec2Model ----
(***************************************************************************)
(* CategoricalColumn (dataprofiler/profilers/categorical_column_profile.py) *)
(* as a state machine over a heap of profile objects.                       *)
(*                                                                          *)
(* A profile is a record [categories, sample_size, top_k_categories]:      *)
(* _categories is a dict value -> count (a function on the set of its      *)
(* keys), sample_size is the attribute kept by BaseColumnProfiler, and     *)
(* top_k_categories is None or an integer.  Python floats are modelled as  *)
(* exact rationals [tag, num, den]; None and +inf are tagged values of the *)
(* same shape.  The missing value (NaN) is one more dictionary key, as     *)
(* value_counts(dropna=False) makes it.                                     *)
(***************************************************************************)
EXTENDS Integers, Sequences, FiniteSets, TLC

VARIABLES heap, last

vars == <<heap, last>>

(* ------------------------------ bounds -------------------------------- *)

\* No operation is taken that would bring a category's count above this.
MaxCount == 1
\* Number of profile objects that are ever constructed.
MaxProfiles == 3
\* Largest top_k_categories option passed to the constructor.
MaxTopK == 1
\* Classifier inputs: largest sample_size drawn.
MaxSampleSize == 60
\* Classifier inputs: how far above the absolute threshold the number of
\* distinct keys goes.
MaxExtraUnique == 2
\* Homogeneity test inputs: largest count of one category in one group.
MaxCellCount == 2

(* ------------------------- program constants -------------------------- *)

_MAXIMUM_UNIQUE_VALUES_TO_CLASSIFY_AS_CATEGORICAL == 10

\* 0.2 as numerator and denominator
_CATEGORICAL_THRESHOLD_DEFAULT == [tag |-> "num", num |-> 1, den |-> 5]

(* ------------------------------ values -------------------------------- *)

NaN == "NaN"

\* Column values, in a fixed order; the first two are the ones the small
\* batches are made of.
AllValues == <<"a", NaN, "c", "d", "e", "f", "g", "h", "i", "j", "k", "l", "m">>

Range(f) == {f[i] : i \in DOMAIN f}

None == [tag |-> "None", num |-> 0, den |-> 1]
Inf == [tag |-> "inf", num |-> 1, den |-> 0]
Num(n, d) == [tag |-> "num", num |-> n, den |-> d]
Whole(n) == Num(n, 1)

RECURSIVE GCD(_, _)
GCD(a, b) == IF b = 0 THEN a ELSE GCD(b, a % b)

Abs(n) == IF n < 0 THEN -n ELSE n

\* Arithmetic of numbers; the results are in lowest terms.
Norm(n, d) ==
    LET g == GCD(Abs(n), Abs(d))
    IN  IF g = 0 THEN Num(n, d) ELSE Num(n \div g, d \div g)

RatAdd(x, y) ==
    LET g == GCD(x.den, y.den)
        l == (x.den \div g) * y.den
    IN  Norm(x.num * (l \div x.den) + y.num * (l \div y.den), l)

RatNeg(x) == Num(-x.num, x.den)

RatSub(x, y) == RatAdd(x, RatNeg(y))

RatMul(x, y) ==
    LET a == Norm(x.num, y.den)
        b == Norm(y.num, x.den)
    IN  Norm(a.num * b.num, a.den * b.den)

\* x / y for y > 0
RatDiv(x, y) == RatMul(x, Num(y.den, y.num))

RatLeq(x, y) == x.num * y.den <= y.num * x.den

RatEq(x, y) == x.num * y.den = y.num * x.den

RECURSIVE SumOver(_, _)
SumOver(S, f) ==
    IF S = {} THEN 0
    ELSE LET k == CHOOSE k \in S : TRUE
         IN  f[k] + SumOver(S \ {k}, f)

RECURSIVE RatSumOver(_, _)
RatSumOver(S, f) ==
    IF S = {} THEN Whole(0)
    ELSE LET k == CHOOSE k \in S : TRUE
         IN  RatAdd(f[k], RatSumOver(S \ {k}, f))

\* sum(d.values())
Total(d) == SumOver(DOMAIN d, d)

EmptyDict == [k \in {} |-> 0]

(* --------------------- collaborators outside the file ----------------- *)

\* utils.add_nested_dictionaries: every key of either mapping, with the sum
\* of its counts (0 where absent); a new mapping.
add_nested_dictionaries(first_dict, second_dict) ==
    [k \in DOMAIN first_dict \cup DOMAIN second_dict |->
        (IF k \in DOMAIN first_dict THEN first_dict[k] ELSE 0)
      + (IF k \in DOMAIN second_dict THEN second_dict[k] ELSE 0)]

\* BaseColumnProfiler._add_helper: the merged profile's sample_size is the
\* sum of the two operands' sample sizes.
_add_helper(merged_profile, other1, other2) ==
    [merged_profile EXCEPT !.sample_size = other1.sample_size + other2.sample_size]

\* BaseColumnProfiler._update_column_base_properties: sample_size grows by
\* the "sample_size" entry of the batch profile.
_update_column_base_properties(self, profile) ==
    [self EXCEPT !.sample_size = self.sample_size + profile.sample_size]

\* BaseColumnProfiler.diff: the report the subclass fills in, initially empty.
BaseDiff == [k \in {} |-> None]

\* utils.find_diff_of_numbers: self - other, null if either side is null.
find_diff_of_numbers(stat1, stat2) ==
    IF stat1.tag = "None" \/ stat2.tag = "None" THEN None
    ELSE RatSub(stat1, stat2)

\* utils.find_diff_of_strings_and_bools: "unchanged" or the two values.
find_diff_of_strings_and_bools(stat1, stat2) ==
    IF stat1 = stat2 THEN <<"unchanged">> ELSE <<stat1, stat2>>

\* utils.find_diff_of_lists_and_sets: removed / common / added keys.
find_diff_of_lists_and_sets(stat1, stat2) ==
    [removed |-> stat1 \ stat2, common |-> stat1 \cap stat2, added |-> stat2 \ stat1]

\* utils.find_diff_of_dicts: per key of either mapping, the difference of
\* the counts where both have it, else the side that has it.
find_diff_of_dicts(dict1, dict2) ==
    [k \in DOMAIN dict1 \cup DOMAIN dict2 |->
        IF k \in DOMAIN dict1 /\ k \in DOMAIN dict2
        THEN <<"diff", dict1[k] - dict2[k]>>
        ELSE IF k \in DOMAIN dict1 THEN <<"self", dict1[k]>>
        ELSE <<"other", dict2[k]>>]

\* pandas Series.value_counts(dropna=False).to_dict(): each value of the
\* series, NaN included, with its number of occurrences.
value_counts(df_series) ==
    [v \in Range(df_series) |->
        Cardinality({i \in DOMAIN df_series : df_series[i] = v})]

(* --------------------------- CategoricalColumn ------------------------ *)

\* __init__: an empty counter; top_k_categories from the options, else None.
\* sample_size = 0 is what the base constructor sets.
__init__(top_k) ==
    [categories |-> EmptyDict, sample_size |-> 0, top_k_categories |-> top_k]

\* A plausible slip: only the keys of self are merged.
add_first_keys(self, other) ==
    [categories |-> [k \in DOMAIN self.categories |->
                        self.categories[k]
                        + (IF k \in DOMAIN other.categories
                           THEN other.categories[k] ELSE 0)],
     sample_size |-> self.sample_size + other.sample_size,
     top_k_categories |-> None]

\* A plausible slip: the base helper is not called on the merged profile.
add_no_helper(self, other) ==
    [__init__(None) EXCEPT
        !.categories = add_nested_dictionaries(self.categories, other.categories)]

\* __add__: the merged profile, a new object.
__add__(self, other) ==
    LET merged_profile == __init__(None)
        merged1 == [merged_profile EXCEPT !.categories =
                       add_nested_dictionaries(self.categories, other.categories)]
    IN  _add_helper(merged1, self, other)

categories(self) == DOMAIN self.categories

unique_ratio(self) ==
    IF self.sample_size # 0
    THEN Num(Cardinality(categories(self)), self.sample_size)
    ELSE Whole(1)

\* A plausible slip: the comparison of the comment ("less than this value").
is_match_strict(self) ==
    LET unique == Cardinality(DOMAIN self.categories)
    IN  IF unique < _MAXIMUM_UNIQUE_VALUES_TO_CLASSIFY_AS_CATEGORICAL THEN TRUE
        ELSE IF self.sample_size # 0
                /\ RatLeq(unique_ratio(self), _CATEGORICAL_THRESHOLD_DEFAULT)
        THEN TRUE
        ELSE FALSE

is_match(self) ==
    LET unique == Cardinality(DOMAIN self.categories)
    IN  IF unique <= _MAXIMUM_UNIQUE_VALUES_TO_CLASSIFY_AS_CATEGORICAL THEN TRUE
        ELSE IF self.sample_size # 0
                /\ RatLeq(unique_ratio(self), _CATEGORICAL_THRESHOLD_DEFAULT)
        THEN TRUE
        ELSE FALSE

\* A plausible slip: the batch's counts replace the counter.
update_categories_replace(self, df_series) ==
    [self EXCEPT !.categories = value_counts(df_series)]

_update_categories(self, df_series) ==
    LET category_count == value_counts(df_series)
    IN  [self EXCEPT !.categories =
            add_nested_dictionaries(self.categories, category_count)]

_update_helper(self, df_series_clean, profile) ==
    _update_column_base_properties(self, profile)

\* A plausible slip: the batch profile counts the non-null rows only.
update_dropna(self, df_series) ==
    IF Len(df_series) = 0 THEN self
    ELSE LET profile == [sample_size |->
                            Cardinality({i \in DOMAIN df_series : df_series[i] # NaN})]
         IN  _update_helper(_update_categories(self, df_series), df_series, profile)

\* update: self after the call (the call returns self).
update(self, df_series) ==
    IF Len(df_series) = 0 THEN self
    ELSE LET profile == [sample_size |-> Len(df_series)]
         IN  _update_helper(_update_categories(self, df_series), df_series, profile)

\* A plausible slip: the sum of the squared proportions.
gini_squares(self) ==
    IF self.sample_size = 0 THEN None
    ELSE RatSumOver(DOMAIN self.categories,
            [i \in DOMAIN self.categories |->
                RatMul(Num(self.categories[i], self.sample_size),
                       Num(self.categories[i], self.sample_size))])

gini_impurity(self) ==
    IF self.sample_size = 0 THEN None
    ELSE RatSumOver(DOMAIN self.categories,
            [i \in DOMAIN self.categories |->
                RatMul(Num(self.categories[i], self.sample_size),
                       RatSub(Whole(1), Num(self.categories[i], self.sample_size)))])

unalikeability(self) ==
    IF self.sample_size = 0 THEN None
    ELSE IF self.sample_size = 1 THEN Whole(0)
    ELSE LET unalike_sum ==
                 SumOver(DOMAIN self.categories,
                    [category \in DOMAIN self.categories |->
                        (self.sample_size - self.categories[category])
                        * self.categories[category]])
         IN  Norm(unalike_sum, self.sample_size * self.sample_size - self.sample_size)

(* ----------------------- chi-squared homogeneity test ----------------- *)

NoResults ==
    [chi2_statistic |-> None, df |-> None, p_value |-> None,
     warning |-> "", raised |-> ""]

\* The 2 x k table of observed counts with its margins.
ContingencyTable(categories1, categories2) ==
    LET combined_cats == DOMAIN categories1 \cup DOMAIN categories2
        cat_counts1 == [cat \in combined_cats |->
                           IF cat \in DOMAIN categories1 THEN categories1[cat] ELSE 0]
        cat_counts2 == [cat \in combined_cats |->
                           IF cat \in DOMAIN categories2 THEN categories2[cat] ELSE 0]
        row_sums == <<Total(cat_counts1), Total(cat_counts2)>>
    IN  [combined_cats |-> combined_cats,
         num_cats |-> Cardinality(combined_cats),
         observed |-> <<cat_counts1, cat_counts2>>,
         row_sums |-> row_sums,
         col_sums |-> [cat \in combined_cats |-> cat_counts1[cat] + cat_counts2[cat]],
         total |-> row_sums[1] + row_sums[2]]

\* Expected counts and the statistic; a division by zero raises
\* ZeroDivisionError, which leaves the test without a result.
ChiSquaredStatistic(t) ==
    LET cells == (1..2) \X t.combined_cats
        expected == [c \in cells |->
                        Norm(t.row_sums[c[1]] * t.col_sums[c[2]], t.total)]
        term == [c \in cells |->
                    LET d == RatSub(Whole(t.observed[c[1]][c[2]]), expected[c])
                    IN  RatDiv(RatMul(d, d), expected[c])]
    IN  IF t.total = 0 \/ \E c \in cells : expected[c].num = 0
        THEN [raised |-> "ZeroDivisionError", chi2_statistic |-> None]
        ELSE [raised |-> "", chi2_statistic |-> RatSumOver(cells, term)]

\* A plausible slip: only the row sums are tested for a zero.
chi_squared_rows_only(categories1, categories2, scipy) ==
    LET t == ContingencyTable(categories1, categories2)
        results == [NoResults EXCEPT !.df = Whole(t.num_cats - 1)]
        stat == ChiSquaredStatistic(t)
    IN  IF t.num_cats < 1
        THEN [NoResults EXCEPT !.warning = "Insufficient number of categories"]
        ELSE IF 0 \in Range(t.row_sums)
        THEN [results EXCEPT !.chi2_statistic = Inf, !.p_value = Whole(0)]
        ELSE IF stat.raised # ""
        THEN [NoResults EXCEPT !.raised = stat.raised]
        ELSE IF ~scipy
        THEN [results EXCEPT !.chi2_statistic = stat.chi2_statistic,
                             !.warning = "Could not import scipy"]
        ELSE [results EXCEPT !.chi2_statistic = stat.chi2_statistic,
                             !.p_value = [stat.chi2_statistic EXCEPT !.tag = "chi2_sf"]]

\* _perform_chi_squared_test; scipy tells whether scipy.stats can be
\* imported.  The p-value 1 - chi2(df).cdf(statistic) is kept symbolic: the
\* statistic under the tag "chi2_sf".
_perform_chi_squared_test(categories1, categories2, scipy) ==
    LET t == ContingencyTable(categories1, categories2)
        results == [NoResults EXCEPT !.df = Whole(t.num_cats - 1)]
        stat == ChiSquaredStatistic(t)
    IN  IF t.num_cats < 1
        THEN [NoResults EXCEPT !.warning = "Insufficient number of categories"]
        ELSE IF 0 \in Range(t.row_sums) \/ 0 \in Range(t.col_sums)
        THEN [results EXCEPT !.chi2_statistic = Inf, !.p_value = Whole(0)]
        ELSE IF stat.raised # ""
        THEN [NoResults EXCEPT !.raised = stat.raised]
        ELSE IF ~scipy
        THEN [results EXCEPT !.chi2_statistic = stat.chi2_statistic,
                             !.warning = "Could not import scipy"]
        ELSE [results EXCEPT !.chi2_statistic = stat.chi2_statistic,
                             !.p_value = [stat.chi2_statistic EXCEPT !.tag = "chi2_sf"]]

(* -------------------------------- diff -------------------------------- *)

\* The statistics every diff report has.
DiffStatistics(self, other_profile) ==
    ("unique_count" :> find_diff_of_numbers(
                          Whole(Cardinality(categories(self))),
                          Whole(Cardinality(categories(other_profile)))))
    @@ ("unique_ratio" :> find_diff_of_numbers(unique_ratio(self),
                                               unique_ratio(other_profile)))

\* The statistics diffed only if both profiles are categorical.  Sorting
\* the counters by count changes the order of the items, not the mapping.
DiffCategoricalStatistics(self, other_profile) ==
    ("categories" :> find_diff_of_lists_and_sets(categories(self),
                                                 categories(other_profile)))
    @@ ("gini_impurity" :> find_diff_of_numbers(gini_impurity(self),
                                                gini_impurity(other_profile)))
    @@ ("unalikeability" :> find_diff_of_numbers(unalikeability(self),
                                                 unalikeability(other_profile)))
    @@ ("categorical_count" :> find_diff_of_dicts(self.categories,
                                                  other_profile.categories))

\* A plausible slip: "or" for "and" in the test of the two classifications.
diff_either(self, other_profile, scipy) ==
    LET differences ==
            ("categorical" :> find_diff_of_strings_and_bools(
                                  is_match(self), is_match(other_profile)))
            @@ BaseDiff
    IN  IF is_match(self) \/ is_match(other_profile)
        THEN [differences |->
                 ("chi2-test" :> _perform_chi_squared_test(
                                    self.categories, other_profile.categories, scipy))
                 @@ ("statistics" :> (DiffStatistics(self, other_profile)
                        @@ DiffCategoricalStatistics(self, other_profile)))
                 @@ differences,
              chi2_calls |-> 1]
        ELSE [differences |->
                 ("statistics" :> DiffStatistics(self, other_profile)) @@ differences,
              chi2_calls |-> 0]

\* diff: the report, and how many times the homogeneity test was called.
diff(self, other_profile, scipy) ==
    LET differences ==
            ("categorical" :> find_diff_of_strings_and_bools(
                                  is_match(self), is_match(other_profile)))
            @@ BaseDiff
    IN  IF is_match(self) /\ is_match(other_profile)
        THEN [differences |->
                 ("chi2-test" :> _perform_chi_squared_test(
                                    self.categories, other_profile.categories, scipy))
                 @@ ("statistics" :> (DiffStatistics(self, other_profile)
                        @@ DiffCategoricalStatistics(self, other_profile)))
                 @@ differences,
              chi2_calls |-> 1]
        ELSE [differences |->
                 ("statistics" :> DiffStatistics(self, other_profile)) @@ differences,
              chi2_calls |-> 0]

(* ------------------------------ the inputs ---------------------------- *)

TopKOptions == {None} \cup {Whole(k) : k \in 1..MaxTopK}

\* A batch with more distinct values than the absolute threshold.
Wide == SubSeq(AllValues, 1, _MAXIMUM_UNIQUE_VALUES_TO_CLASSIFY_AS_CATEGORICAL + 1)

Batches == {<< >>, <<"a">>, <<NaN>>, <<"a", NaN>>, <<"a", "a">>, Wide}

WithinBounds(p) == \A k \in DOMAIN p.categories : p.categories[k] <= MaxCount

(* ------------------------------ operations ---------------------------- *)

Call(op, self, other, ret) == [op |-> op, self |-> self, other |-> other, ret |-> ret]

\* CategoricalColumn(name, options)
New(top_k) ==
    /\ Len(heap) < MaxProfiles
    /\ heap' = Append(heap, __init__(top_k))
    /\ last' = Call("new", Len(heap) + 1, 0, Len(heap) + 1)

\* heap[s].update(df_series)
Update(s, df_series) ==
    /\ WithinBounds(update(heap[s], df_series))
    /\ heap' = [heap EXCEPT ![s] = update(heap[s], df_series)]
    /\ last' = Call("update", s, 0, s)

\* A plausible slip: the counts are merged into self, which is returned.
AddInPlace(s, o) ==
    /\ Len(heap) < MaxProfiles
    /\ WithinBounds(__add__(heap[s], heap[o]))
    /\ heap' = [heap EXCEPT ![s] = __add__(heap[s], heap[o])]
    /\ last' = Call("add", s, o, s)

\* heap[s] + heap[o]
Add(s, o) ==
    /\ Len(heap) < MaxProfiles
    /\ WithinBounds(__add__(heap[s], heap[o]))
    /\ heap' = Append(heap, __add__(heap[s], heap[o]))
    /\ last' = Call("add", s, o, Len(heap) + 1)

\* heap[s].diff(heap[o])
Diff(s, o, scipy) ==
    /\ heap' = heap
    /\ last' = Call("diff", s, o, diff(heap[s], heap[o], scipy))

Init ==
    /\ heap = << >>
    /\ last = Call("start", 0, 0, 0)

Next ==
    \/ \E top_k \in TopKOptions : New(top_k)
    \/ \E s \in DOMAIN heap, df_series \in Batches : Update(s, df_series)
    \/ \E s \in DOMAIN heap, o \in DOMAIN heap : Add(s, o)
    \/ \E s \in DOMAIN heap, o \in DOMAIN heap, scipy \in BOOLEAN : Diff(s, o, scipy)

Spec == Init /\ [][Next]_vars

(* -------------------- the classifier on its own inputs ---------------- *)

\* A counter with the first n values as its keys.
CounterOf(n) == [k \in {AllValues[i] : i \in 1..n} |-> 1]

InitClassifier ==
    /\ \E unique \in 0..(_MAXIMUM_UNIQUE_VALUES_TO_CLASSIFY_AS_CATEGORICAL
                            + MaxExtraUnique),
          sample_size \in 0..MaxSampleSize :
            heap = << [__init__(None) EXCEPT !.categories = CounterOf(unique),
                                             !.sample_size = sample_size] >>
    /\ last = Call("start", 0, 0, 0)

\* heap[1].is_match
Classify ==
    /\ heap' = heap
    /\ last' = Call("is_match", 1, 0, is_match(heap[1]))

NextClassifier == Classify

SpecClassifier == InitClassifier /\ [][NextClassifier]_vars

(* ------------------ the homogeneity test on its own inputs ------------ *)

Chi2Keys == {AllValues[i] : i \in 1..3}

\* The counters over Chi2Keys, zero counts included.
Counters == UNION {[S -> 0..MaxCellCount] : S \in SUBSET Chi2Keys}

InitChi2 ==
    /\ \E categories1 \in Counters, categories2 \in Counters :
            heap = << [__init__(None) EXCEPT !.categories = categories1,
                                             !.sample_size = Total(categories1)],
                      [__init__(None) EXCEPT !.categories = categories2,
                                             !.sample_size = Total(categories2)] >>
    /\ last = Call("start", 0, 0, 0)

\* CategoricalColumn._perform_chi_squared_test(heap[1]._categories,
\*                                             heap[2]._categories)
Chi2(scipy) ==
    /\ heap' = heap
    /\ last' = Call("chi2", 1, 2,
                    _perform_chi_squared_test(heap[1].categories,
                                              heap[2].categories, scipy))

NextChi2 == \E scipy \in BOOLEAN : Chi2(scipy)

SpecChi2 == InitChi2 /\ [][NextChi2]_vars

(* ------------------------------ properties ---------------------------- *)

Profiles == Range(heap)

Unique(p) == Cardinality(DOMAIN p.categories)

\* C1: merge is commutative and associative on the frequency counter: for
\* all reachable profiles a, b, c the category_counts of a+b equal those of
\* b+a and those of (a+b)+c equal those of a+(b+c).
C1_MergeCommutativeAssociative ==
    \A a \in Profiles, b \in Profiles, c \in Profiles :
        /\ __add__(a, b).categories = __add__(b, a).categories
        /\ __add__(__add__(a, b), c).categories
               = __add__(a, __add__(b, c)).categories

\* Two profiles with different key sets have been merged.
C1_Witness ==
    /\ last.op = "add"
    /\ DOMAIN heap[last.self].categories # DOMAIN heap[last.other].categories
    /\ DOMAIN heap[last.self].categories # {}
    /\ DOMAIN heap[last.other].categories # {}

\* C2: update and merge commute: for reachable profiles A, B and batches
\* x, y, merge(update(A,x), update(B,y)) has the category_counts and the
\* sample_size of update(merge(A,B), x followed by y).
C2_UpdateMergeCommute ==
    \A A \in Profiles, B \in Profiles, x \in Batches, y \in Batches :
        LET split == __add__(update(A, x), update(B, y))
            whole == update(__add__(A, B), x \o y)
        IN  /\ split.categories = whole.categories
            /\ split.sample_size = whole.sample_size

\* Two profiles that were updated with non-empty batches x and y have been
\* merged, and the merged counter is that of one update with x followed by y.
C2_Witness ==
    /\ last.op = "add"
    /\ last.self # last.other
    /\ \E x \in Batches \ {<< >>}, y \in Batches \ {<< >>} :
          /\ heap[last.self].categories = update(__init__(None), x).categories
          /\ heap[last.other].categories = update(__init__(None), y).categories
          /\ heap[last.ret].categories = update(__init__(None), x \o y).categories
          /\ heap[last.ret].sample_size = Len(x) + Len(y)

\* C3: a freshly created empty profile is the identity of merge: for every
\* reachable profile p, merge(p, empty) equals p in category_counts,
\* sample_size and top_k.
C3_EmptyIsIdentity ==
    \A p \in Profiles :
        LET merged == __add__(p, __init__(None))
        IN  /\ merged.categories = p.categories
            /\ merged.sample_size = p.sample_size
            /\ merged.top_k_categories = p.top_k_categories

\* C4: merge and diff leave both input profiles as they were, and merge
\* returns a profile that is neither of its inputs.
C4_MergeDiffLeaveInputs ==
    [][last'.op \in {"add", "diff"} =>
          /\ heap'[last'.self] = heap[last'.self]
          /\ heap'[last'.other] = heap[last'.other]
          /\ last'.op = "add" =>
                /\ last'.ret \notin {last'.self, last'.other}
                /\ last'.ret \notin DOMAIN heap
                /\ last'.ret \in DOMAIN heap']_vars

\* A categorical profile has been diffed with one that is not categorical.
C4_Witness ==
    /\ last.op = "diff"
    /\ last.self # last.other
    /\ heap[last.self].sample_size > 0
    /\ ~is_match(heap[last.other])

C6_DiffFields ==
    last.op = "diff" =>
        LET both == is_match(heap[last.self]) /\ is_match(heap[last.other])
            report == last.ret.differences
            only == {"categories", "gini_impurity", "unalikeability",
                     "categorical_count"}
        IN  /\ {"categorical", "statistics"} \subseteq DOMAIN report
            /\ {"unique_count", "unique_ratio"} \subseteq DOMAIN report["statistics"]
            /\ both => /\ only \subseteq DOMAIN report["statistics"]
                       /\ "chi2-test" \in DOMAIN report
                       /\ last.ret.chi2_calls = 1
            /\ ~both => /\ only \cap DOMAIN report["statistics"] = {}
                        /\ "chi2-test" \notin DOMAIN report
                        /\ last.ret.chi2_calls = 0

\* A diff of a categorical profile with rows and one that is not.
C6_Witness ==
    /\ last.op = "diff"
    /\ is_match(heap[last.self])
    /\ heap[last.self].sample_size > 0
    /\ ~is_match(heap[last.other])
    /\ "chi2-test" \notin DOMAIN last.ret.differences

\* C7: with k >= 1 combined categories and a zero row sum or column sum,
\* the test returns statistic = +infinity, p_value = 0 and df = k - 1; and
\* no call divides by a zero expected count.
C7_DegenerateTable ==
    last.op = "chi2" =>
        LET t == ContingencyTable(heap[1].categories, heap[2].categories)
        IN  /\ last.ret.raised = ""
            /\ (t.num_cats >= 1
                  /\ (\/ \E i \in 1..2 : t.row_sums[i] = 0
                      \/ \E cat \in t.combined_cats : t.col_sums[cat] = 0))
               => /\ last.ret.chi2_statistic = Inf
                  /\ last.ret.p_value = Whole(0)
                  /\ last.ret.df = Whole(t.num_cats - 1)

\* A column sum is zero while both groups have rows.
C7_Witness ==
    /\ last.op = "chi2"
    /\ heap[1].sample_size > 0
    /\ heap[2].sample_size > 0
    /\ \E cat \in DOMAIN heap[1].categories :
           /\ heap[1].categories[cat] = 0
           /\ cat \notin DOMAIN heap[2].categories
    /\ last.ret.chi2_statistic = Inf

Covers(after, before) ==
    \A k \in DOMAIN before.categories :
        /\ k \in DOMAIN after.categories
        /\ after.categories[k] >= before.categories[k]

GiniNumerator(p) ==
    SumOver(DOMAIN p.categories,
        [i \in DOMAIN p.categories |->
            p.categories[i] * (p.sample_size - p.categories[i])])

====
